---- MODULE Spec2Model ----
(***************************************************************************)
(* Deep Work Tracker (src/src/main.rs): the scratch file ~/.dw.tmp, the    *)
(* session log ~/.dw.csv and the command handlers start, stop, status and  *)
(* summary that read and write them.                                       *)
(*                                                                         *)
(* A file is a record [exists, data]; data is a sequence of bytes.  A byte *)
(* is a record [k, c, t, off]: k = "ch" is one character c; k = "ts" is    *)
(* the RFC 3339 text of the instant t (in ticks) at UTC offset off (in     *)
(* seconds); k = "int" is the decimal text of the integer t.  The text of  *)
(* a timestamp or of an integer holds none of the characters the CSV       *)
(* format treats specially, so it is kept as one unit.                     *)
(***************************************************************************)
EXTENDS Integers, Sequences, FiniteSets, TLC

\* ------------------------------------------------------------------ bounds
\* Clock ticks per second (chrono counts nanoseconds).
TicksPerSec == 2
\* Seconds per calendar day (a scaled-down day).
SecsPerDay == 2
\* The machine's local UTC offset, in seconds.
LocalOffset == 1
\* The wall clock ranges over 0 .. MaxClock ticks.
MaxClock == 3
\* Command invocations per behaviour.
MaxRuns == 2
\* I/O failures per behaviour.
MaxFaults == 1

\* ----------------------------------------------------------- i32 (line 94)
I32Max == 2147483647
I32Min == -I32Max - 1

InI32(n) == I32Min <= n /\ n <= I32Max

\* a + b leaves the i32 range (decided without forming a + b).
add_overflows(a, b) ==
    \/ b > 0 /\ a > I32Max - b
    \/ b < 0 /\ a < I32Min - b

\* i32::wrapping_add: a + b modulo 2^32, as a release build computes +=.
wrapping_add(a, b) ==
    IF ~add_overflows(a, b) THEN a + b
    ELSE IF b > 0 THEN ((a - I32Max) + (b - I32Max)) - 2
    ELSE ((a + I32Max) + (b + I32Max)) + 2

\* Rust's integer division by b > 0: truncation toward zero.
TruncDiv(a, b) == IF a >= 0 THEN a \div b ELSE (a + (b - 1)) \div b

\* ------------------------------------------------------------------- bytes
Ch(c) == [k |-> "ch", c |-> c, t |-> 0, off |-> 0]
TsText(t, off) == [k |-> "ts", c |-> "", t |-> t, off |-> off]
IntText(n) == [k |-> "int", c |-> "", t |-> n, off |-> 0]

COMMA == Ch(",")
DQUOTE == Ch("DQUOTE")
LF == Ch("LF")
CR == Ch("CR")
SPACE == Ch(" ")

NoFile == [exists |-> FALSE, data |-> <<>>]
FileOf(bytes) == [exists |-> TRUE, data |-> bytes]

\* chrono: Local::now() is the wall clock at the machine's offset.
LocalNow(clock) == [t |-> clock, off |-> LocalOffset]

\* DateTime::to_rfc3339
to_rfc3339(dt) == << TsText(dt.t, dt.off) >>

\* DateTime::parse_from_rfc3339: the text must be one timestamp, whole.
parse_from_rfc3339(field) ==
    IF Len(field) = 1 /\ field[1].k = "ts"
    THEN [ok |-> TRUE, t |-> field[1].t, off |-> field[1].off]
    ELSE [ok |-> FALSE, t |-> 0, off |-> 0]

\* i64::to_string
to_string(n) == << IntText(n) >>

\* str::parse::<i32>: one integer, whole, within the i32 range.
parse_i32(field) ==
    IF Len(field) = 1 /\ field[1].k = "int" /\ InI32(field[1].t)
    THEN [ok |-> TRUE, v |-> field[1].t]
    ELSE [ok |-> FALSE, v |-> 0]

\* stop.signed_duration_since(start), in ticks.
signed_duration_since(stop, start) == stop.t - start.t

\* A variant of num_seconds that rounds a fraction of a second up.
num_seconds_rounded(elapsed) == TruncDiv(elapsed + (TicksPerSec - 1), TicksPerSec)

\* Duration::num_seconds: whole seconds, truncated toward zero.
num_seconds(elapsed) == TruncDiv(elapsed, TicksPerSec)

\* DateTime::date: the calendar day of the timestamp at its own offset.
date(dt) == ((dt.t \div TicksPerSec) + dt.off) \div SecsPerDay

\* tags.join(" ")
RECURSIVE join(_)
join(tags) ==
    IF Len(tags) = 0 THEN <<>>
    ELSE IF Len(tags) = 1 THEN tags[1]
    ELSE tags[1] \o <<SPACE>> \o join(Tail(tags))

\* ------------------------------------------------------------- csv::Writer
\* A field is quoted when it holds the delimiter, a quote, CR or LF.
needs_quotes(field) ==
    \E i \in 1..Len(field) : field[i] \in {COMMA, DQUOTE, LF, CR}

RECURSIVE double_quotes(_)
double_quotes(field) ==
    IF field = <<>> THEN <<>>
    ELSE (IF Head(field) = DQUOTE THEN <<DQUOTE, DQUOTE>> ELSE <<Head(field)>>)
         \o double_quotes(Tail(field))

write_field(field) ==
    IF needs_quotes(field)
    THEN <<DQUOTE>> \o double_quotes(field) \o <<DQUOTE>>
    ELSE field

RECURSIVE write_fields(_)
write_fields(fields) ==
    IF Len(fields) = 1 THEN write_field(fields[1])
    ELSE write_field(fields[1]) \o <<COMMA>> \o write_fields(Tail(fields))

\* Writer::write_record: the fields, comma separated, and a line feed.
write_record(fields) == write_fields(fields) \o <<LF>>

\* ------------------------------------------------------------- csv::Reader
\* The reader's state: st the automaton's state, field the field being read,
\* rec the fields of the record being read, recs the records read.
CsvStart == [st |-> "StartRecord", field |-> <<>>, rec |-> <<>>, recs |-> <<>>]

EndField(s) ==
    [s EXCEPT !.st = "StartField", !.field = <<>>, !.rec = Append(s.rec, s.field)]

EndRecord(s) ==
    [s EXCEPT !.st = "StartRecord", !.field = <<>>, !.rec = <<>>,
              !.recs = Append(s.recs, Append(s.rec, s.field))]

IsTerm(b) == b = LF \/ b = CR

csv_step(s, b) ==
    CASE s.st = "StartRecord" ->
           IF IsTerm(b) THEN s
           ELSE IF b = DQUOTE THEN [s EXCEPT !.st = "InQuotedField"]
           ELSE IF b = COMMA THEN EndField(s)
           ELSE [s EXCEPT !.st = "InField", !.field = <<b>>]
      [] s.st = "StartField" ->
           IF IsTerm(b) THEN EndRecord(s)
           ELSE IF b = DQUOTE THEN [s EXCEPT !.st = "InQuotedField"]
           ELSE IF b = COMMA THEN EndField(s)
           ELSE [s EXCEPT !.st = "InField", !.field = <<b>>]
      [] s.st = "InField" ->
           IF IsTerm(b) THEN EndRecord(s)
           ELSE IF b = COMMA THEN EndField(s)
           ELSE [s EXCEPT !.field = Append(s.field, b)]
      [] s.st = "InQuotedField" ->
           IF b = DQUOTE THEN [s EXCEPT !.st = "InDoubleEscapedQuote"]
           ELSE [s EXCEPT !.field = Append(s.field, b)]
      [] s.st = "InDoubleEscapedQuote" ->
           IF IsTerm(b) THEN EndRecord(s)
           ELSE IF b = COMMA THEN EndField(s)
           ELSE IF b = DQUOTE
                THEN [s EXCEPT !.st = "InQuotedField", !.field = Append(s.field, b)]
           ELSE [s EXCEPT !.st = "InField", !.field = Append(s.field, b)]

RECURSIVE csv_run(_, _)
csv_run(s, bytes) ==
    IF bytes = <<>> THEN s ELSE csv_run(csv_step(s, Head(bytes)), Tail(bytes))

\* The records of a file's text.  At the end of the input a record under way
\* is ended as if by a line feed.
csv_records(bytes) ==
    LET s == csv_run(CsvStart, bytes)
    IN  IF s.st = "StartRecord" THEN s.recs ELSE EndRecord(s).recs

\* Reader::records with flexible(false): item i of the iterator is Ok when
\* record i has as many fields as the first record, and Err otherwise.
record_ok(recs, i) == Len(recs[i]) = Len(recs[1])

\* One line of the scratch file (line 132) and of the log (lines 180-184).
scratch_line(start, desc, tags) ==
    write_record(<< to_rfc3339(start), desc, tags >>)

log_line(start, stop, secs, desc, tags) ==
    write_record(<< to_rfc3339(start), to_rfc3339(stop), to_string(secs), desc, tags >>)

\* A variant of write_at_start for a descriptor opened with O_APPEND.
write_at_end(data, bytes) == data \o bytes

\* A write at offset 0 of a descriptor opened without O_APPEND: the bytes
\* replace the file's first Len(bytes) bytes and the rest of the file stays.
write_at_start(data, bytes) ==
    bytes \o SubSeq(data, Len(bytes) + 1, Len(data))

\* ------------------------------------------------------------------ inputs
\* The invocations: the shell's process and one more that may race with it.
Procs == {"p1", "p2"}

\* start's command lines, as <<description, tags>>: no option (clap's
\* defaults: an empty description and one empty tag), and a description that
\* needs quoting with two tags.
StartArgs == { << <<>>, << <<>> >> >>,
               << <<DQUOTE, COMMA>>, << <<Ch("x")>>, <<Ch("y")>> >> >> }

\* The first tick of local day 1.
Day1Start == TicksPerSec * (SecsPerDay - LocalOffset)

\* Lines the log may hold when the tool is first run: completed sessions of
\* 1, 2 and 4 seconds (the third recorded at offset 0), one of the longest
\* duration an i32 holds, lines whose start or duration does not parse, and
\* lines of three and of two fields.
SessA == log_line([t |-> 0, off |-> LocalOffset],
                  [t |-> TicksPerSec, off |-> LocalOffset], 1, <<Ch("w")>>, <<>>)
SessB == log_line([t |-> Day1Start, off |-> LocalOffset],
                  [t |-> Day1Start + 2 * TicksPerSec, off |-> LocalOffset], 2, <<>>, <<Ch("x")>>)
SessC == log_line([t |-> Day1Start, off |-> 0],
                  [t |-> Day1Start + 4 * TicksPerSec, off |-> 0], 4, <<>>, <<>>)
SessBig == write_record(<< to_rfc3339([t |-> 0, off |-> LocalOffset]),
                           to_rfc3339([t |-> I32Max, off |-> LocalOffset]),
                           to_string(I32Max), <<>>, <<>> >>)
BadStart == write_record(<< <<Ch("w")>>,
                            to_rfc3339([t |-> Day1Start, off |-> LocalOffset]),
                            to_string(1), <<>>, <<>> >>)
BadDurA == write_record(<< to_rfc3339([t |-> 0, off |-> LocalOffset]),
                           to_rfc3339([t |-> TicksPerSec, off |-> LocalOffset]),
                           <<Ch("w")>>, <<>>, <<>> >>)
BadDurB == write_record(<< to_rfc3339([t |-> Day1Start, off |-> LocalOffset]),
                           to_rfc3339([t |-> Day1Start, off |-> LocalOffset]),
                           <<Ch("w")>>, <<>>, <<>> >>)
SessShort == write_record(<< to_rfc3339([t |-> Day1Start, off |-> LocalOffset]),
                             to_rfc3339([t |-> Day1Start, off |-> LocalOffset]),
                             to_string(1) >>)
SessTwo == write_record(<< to_rfc3339([t |-> Day1Start, off |-> LocalOffset]),
                           to_rfc3339([t |-> Day1Start, off |-> LocalOffset]) >>)

LogLines == {SessA, SessB, SessC, SessBig, BadStart, BadDurA, BadDurB, SessShort, SessTwo}

\* Logs for summary to read: absent, empty, or one or two lines.
InitLogs ==
    {NoFile, FileOf(<<>>)}
    \cup {FileOf(a) : a \in LogLines}
    \cup {FileOf(a \o b) : a \in LogLines, b \in LogLines}

\* The log before the first session: absent, one earlier session, or an
\* earlier session whose line an interrupted write cut short.
SessionLogs == {NoFile, FileOf(SessA), FileOf(SubSeq(SessA, 1, Len(SessA) - 2))}

\* ------------------------------------------------------------------- state
VARIABLES
    clock,      \* the wall clock, in ticks (what Local::now() reads)
    log_file,   \* ~/.dw.csv
    tmp_file,   \* ~/.dw.tmp
    pc,         \* where each invocation stands
    desc,       \* handle_start's desc
    tags,       \* handle_start's tags
    stop,       \* handle_stop's stop (line 164)
    record,     \* handle_stop's record (line 165)
    result,     \* what the last invocation printed and how it exited
    runs,       \* commands invoked so far
    faults      \* I/O failures so far

vars == <<clock, log_file, tmp_file, pc, desc, tags, stop, record, result, runs, faults>>

NoTime == [t |-> 0, off |-> 0]

\* An invocation's outcome: cmd is the subcommand (lines 63-73); exit is "ok"
\* (Ok(())), "error" (main returns Err) or "panic"; msg is the line printed
\* first; total, hrs, minutes and seconds are summary's numbers.
Outcome(cmd, exit, msg) ==
    [cmd |-> cmd, exit |-> exit, msg |-> msg,
     total |-> 0, hrs |-> 0, minutes |-> 0, seconds |-> 0]

InitWith(logs) ==
    /\ clock \in 0..MaxClock
    /\ log_file \in logs
    /\ tmp_file = NoFile
    /\ pc = [p \in Procs |-> "idle"]
    /\ desc = [p \in Procs |-> <<>>]
    /\ tags = [p \in Procs |-> <<>>]
    /\ stop = [p \in Procs |-> NoTime]
    /\ record = [p \in Procs |-> <<>>]
    /\ result = [p \in Procs |-> Outcome("none", "none", "")]
    /\ runs = 0
    /\ faults = 0

Init == InitWith(SessionLogs)

Invocable(p) == pc[p] = "idle" /\ runs < MaxRuns

\* An I/O operation fails.
fault == faults < MaxFaults /\ faults' = faults + 1

\* The process ends: its locals are gone, its output and exit status stay.
exit_with(p, outcome) ==
    /\ pc' = [pc EXCEPT ![p] = "idle"]
    /\ desc' = [desc EXCEPT ![p] = <<>>]
    /\ tags' = [tags EXCEPT ![p] = <<>>]
    /\ stop' = [stop EXCEPT ![p] = NoTime]
    /\ record' = [record EXCEPT ![p] = <<>>]
    /\ result' = [result EXCEPT ![p] = outcome]

\* A variant of handle_start without the existence check of lines 118-121.
handle_start_unchecked(p, d, ts) ==
    /\ Invocable(p)
    /\ runs' = runs + 1
    /\ pc' = [pc EXCEPT ![p] = "start_open"]
    /\ desc' = [desc EXCEPT ![p] = d]
    /\ tags' = [tags EXCEPT ![p] = ts]
    /\ result' = [result EXCEPT ![p] = Outcome("start", "running", "")]
    /\ UNCHANGED <<clock, log_file, tmp_file, stop, record, faults>>

\* -------------------------------------------------- handle_start (115-140)
\* Lines 116-121: the existence check.
handle_start(p, d, ts) ==
    /\ Invocable(p)
    /\ runs' = runs + 1
    /\ IF tmp_file.exists
       THEN exit_with(p, Outcome("start", "ok", "Another deep work session is active"))
       ELSE /\ pc' = [pc EXCEPT ![p] = "start_open"]
            /\ desc' = [desc EXCEPT ![p] = d]
            /\ tags' = [tags EXCEPT ![p] = ts]
            /\ result' = [result EXCEPT ![p] = Outcome("start", "running", "")]
            /\ UNCHANGED <<stop, record>>
    /\ UNCHANGED <<clock, log_file, tmp_file, faults>>

\* Lines 123-127: open with create and truncate.
start_open(p) ==
    /\ pc[p] = "start_open"
    /\ tmp_file' = FileOf(<<>>)
    /\ pc' = [pc EXCEPT ![p] = "start_write"]
    /\ UNCHANGED <<clock, log_file, desc, tags, stop, record, result, runs, faults>>

start_open_fails(p) ==
    /\ pc[p] = "start_open"
    /\ exit_with(p, Outcome("start", "error", ""))
    /\ UNCHANGED <<clock, log_file, tmp_file, runs>>
    /\ fault

\* Lines 129-137: read the clock, write the record at the descriptor's
\* offset 0, flush, print.
start_write(p) ==
    /\ pc[p] = "start_write"
    /\ tmp_file' = [tmp_file EXCEPT !.data =
            write_at_start(@, scratch_line(LocalNow(clock), desc[p], join(tags[p])))]
    /\ exit_with(p, Outcome("start", "ok", "Begin deep work!"))
    /\ UNCHANGED <<clock, log_file, runs, faults>>

\* The flush fails after k bytes of the record, fewer than all, reached the
\* file.
start_write_fails(p) ==
    /\ pc[p] = "start_write"
    /\ \E k \in 0..(Len(scratch_line(LocalNow(clock), desc[p], join(tags[p]))) - 1) :
         tmp_file' = [tmp_file EXCEPT !.data =
            write_at_start(@, SubSeq(scratch_line(LocalNow(clock), desc[p], join(tags[p])), 1, k))]
    /\ exit_with(p, Outcome("start", "error", ""))
    /\ UNCHANGED <<clock, log_file, runs>>
    /\ fault

\* ---------------------------------------- datetime_from_last_entry (142-154)
\* iter.last().unwrap().unwrap(): the last record, when there is one and it
\* has as many fields as the first; a panic otherwise.
datetime_from_last_entry(data) ==
    LET recs == csv_records(data)
    IN  IF recs # <<>> /\ record_ok(recs, Len(recs))
        THEN [ok |-> TRUE, rec |-> recs[Len(recs)]]
        ELSE [ok |-> FALSE, rec |-> <<>>]

\* Lines 165-169 (and 245-248): "ok", or how reading the session fails.
read_session(data) ==
    LET last == datetime_from_last_entry(data)
    IN  IF ~last.ok THEN "panic"
        ELSE IF ~parse_from_rfc3339(last.rec[1]).ok THEN "error"
        ELSE IF Len(last.rec) < 3 THEN "panic"
        ELSE "ok"

\* A variant of handle_stop without the existence check of lines 159-162.
handle_stop_unchecked(p) ==
    /\ Invocable(p)
    /\ runs' = runs + 1
    /\ pc' = [pc EXCEPT ![p] = "stop_read"]
    /\ stop' = [stop EXCEPT ![p] = LocalNow(clock)]
    /\ result' = [result EXCEPT ![p] = Outcome("stop", "running", "")]
    /\ UNCHANGED <<clock, log_file, tmp_file, desc, tags, record, faults>>

\* --------------------------------------------------- handle_stop (156-197)
\* Lines 157-164: the existence check, then the clock.
handle_stop(p) ==
    /\ Invocable(p)
    /\ runs' = runs + 1
    /\ IF ~tmp_file.exists
       THEN exit_with(p, Outcome("stop", "ok", "No active deep work session"))
       ELSE /\ pc' = [pc EXCEPT ![p] = "stop_read"]
            /\ stop' = [stop EXCEPT ![p] = LocalNow(clock)]
            /\ result' = [result EXCEPT ![p] = Outcome("stop", "running", "")]
            /\ UNCHANGED <<desc, tags, record>>
    /\ UNCHANGED <<clock, log_file, tmp_file, faults>>

\* Lines 165-169: read the scratch file's last record and parse its start.
stop_read(p) ==
    /\ pc[p] = "stop_read"
    /\ IF read_session(tmp_file.data) = "ok"
       THEN /\ record' = [record EXCEPT ![p] = datetime_from_last_entry(tmp_file.data).rec]
            /\ pc' = [pc EXCEPT ![p] = "stop_open"]
            /\ UNCHANGED <<desc, tags, stop, result>>
       ELSE exit_with(p, Outcome("stop", read_session(tmp_file.data), ""))
    /\ UNCHANGED <<clock, log_file, tmp_file, runs, faults>>

\* Line 146: the scratch file cannot be opened for reading.
stop_read_fails(p) ==
    /\ pc[p] = "stop_read"
    /\ exit_with(p, Outcome("stop", "panic", ""))
    /\ UNCHANGED <<clock, log_file, tmp_file, runs>>
    /\ fault

\* A variant of stop_open in which the scratch file is removed before the
\* record is appended.
stop_open_removing(p) ==
    /\ pc[p] = "stop_open"
    /\ log_file' = [log_file EXCEPT !.exists = TRUE]
    /\ tmp_file' = NoFile
    /\ pc' = [pc EXCEPT ![p] = "stop_write"]
    /\ UNCHANGED <<clock, desc, tags, stop, record, result, runs, faults>>

\* Lines 171-175: open the log with create and append.
stop_open(p) ==
    /\ pc[p] = "stop_open"
    /\ log_file' = [log_file EXCEPT !.exists = TRUE]
    /\ pc' = [pc EXCEPT ![p] = "stop_write"]
    /\ UNCHANGED <<clock, tmp_file, desc, tags, stop, record, result, runs, faults>>

stop_open_fails(p) ==
    /\ pc[p] = "stop_open"
    /\ exit_with(p, Outcome("stop", "error", ""))
    /\ UNCHANGED <<clock, log_file, tmp_file, runs>>
    /\ fault

\* A variant of completed_line with the description and the tags exchanged.
completed_line_swapped(rec, stop_time) ==
    LET start_time == parse_from_rfc3339(rec[1])
    IN  log_line(start_time, stop_time,
                 num_seconds(signed_duration_since(stop_time, start_time)),
                 rec[3], rec[2])

\* Lines 178-184: the completed record.
completed_line(rec, stop_time) ==
    LET start_time == parse_from_rfc3339(rec[1])
    IN  log_line(start_time, stop_time,
                 num_seconds(signed_duration_since(stop_time, start_time)),
                 rec[2], rec[3])

\* Lines 177-192: append the completed record, flush, print.
stop_write(p) ==
    /\ pc[p] = "stop_write"
    /\ log_file' = [log_file EXCEPT !.data = @ \o completed_line(record[p], stop[p])]
    /\ pc' = [pc EXCEPT ![p] = "stop_remove"]
    /\ result' = [result EXCEPT ![p] = Outcome("stop", "running", "Deep work complete!")]
    /\ UNCHANGED <<clock, tmp_file, desc, tags, stop, record, runs, faults>>

\* The flush fails after k bytes of the record, fewer than all, reached the
\* log.
stop_write_fails(p) ==
    /\ pc[p] = "stop_write"
    /\ \E k \in 0..(Len(completed_line(record[p], stop[p])) - 1) :
         log_file' = [log_file EXCEPT !.data =
            @ \o SubSeq(completed_line(record[p], stop[p]), 1, k)]
    /\ exit_with(p, Outcome("stop", "error", ""))
    /\ UNCHANGED <<clock, tmp_file, runs>>
    /\ fault

\* Line 194: remove the scratch file.
stop_remove(p) ==
    /\ pc[p] = "stop_remove"
    /\ tmp_file' = NoFile
    /\ exit_with(p, Outcome("stop", "ok", "Deep work complete!"))
    /\ UNCHANGED <<clock, log_file, runs, faults>>

stop_remove_fails(p) ==
    /\ pc[p] = "stop_remove"
    /\ exit_with(p, Outcome("stop", "error", "Deep work complete!"))
    /\ UNCHANGED <<clock, log_file, tmp_file, runs>>
    /\ fault

\* ------------------------------------------------- handle_summary (78-113)
\* A variant of summary_loop that parses the duration only of the records
\* dated today.
RECURSIVE summary_loop_lazy(_, _, _, _, _)
summary_loop_lazy(recs, i, total, today, checks) ==
    IF i > Len(recs) THEN [exit |-> "ok", total |-> total]
    ELSE IF ~record_ok(recs, i) THEN [exit |-> "panic", total |-> 0]
    ELSE IF ~parse_from_rfc3339(recs[i][1]).ok THEN [exit |-> "error", total |-> 0]
    ELSE IF date(parse_from_rfc3339(recs[i][1])) # today
         THEN summary_loop_lazy(recs, i + 1, total, today, checks)
    ELSE IF Len(recs[i]) < 3 THEN [exit |-> "panic", total |-> 0]
    ELSE IF ~parse_i32(recs[i][3]).ok THEN [exit |-> "panic", total |-> 0]
    ELSE IF add_overflows(total, parse_i32(recs[i][3]).v) /\ checks
         THEN [exit |-> "panic", total |-> 0]
    ELSE summary_loop_lazy(recs, i + 1, wrapping_add(total, parse_i32(recs[i][3]).v),
                           today, checks)

\* Lines 91-98 from record i on: the loop ends "ok" with the total, or at the
\* first record that is an Err item (unwrap panics), whose start does not
\* parse (? returns the error), or whose duration is missing or does not parse
\* (a panic).  checks says whether += is overflow-checked (a debug build
\* panics) or wraps (a release build).
RECURSIVE summary_loop(_, _, _, _, _)
summary_loop(recs, i, total, today, checks) ==
    IF i > Len(recs) THEN [exit |-> "ok", total |-> total]
    ELSE IF ~record_ok(recs, i) THEN [exit |-> "panic", total |-> 0]
    ELSE IF ~parse_from_rfc3339(recs[i][1]).ok THEN [exit |-> "error", total |-> 0]
    ELSE IF Len(recs[i]) < 3 THEN [exit |-> "panic", total |-> 0]
    ELSE IF ~parse_i32(recs[i][3]).ok THEN [exit |-> "panic", total |-> 0]
    ELSE IF date(parse_from_rfc3339(recs[i][1])) # today
         THEN summary_loop(recs, i + 1, total, today, checks)
    ELSE IF add_overflows(total, parse_i32(recs[i][3]).v) /\ checks
         THEN [exit |-> "panic", total |-> 0]
    ELSE summary_loop(recs, i + 1, wrapping_add(total, parse_i32(recs[i][3]).v),
                      today, checks)

\* Lines 100-110: the total as hours, minutes and seconds.
summary_outcome(total) ==
    LET hrs == TruncDiv(total, 3600)
        minutes == TruncDiv(total, 60) - 60 * hrs
        seconds == (total - 60 * minutes) - 3600 * hrs
    IN  [cmd |-> "summary", exit |-> "ok", msg |-> "Deep work summary",
         total |-> total, hrs |-> hrs, minutes |-> minutes, seconds |-> seconds]

\* A variant of summarize that reads an absent log as an empty one.
summarize_absent_as_empty(file, now, checks) ==
    LET r == summary_loop(csv_records(file.data), 1, 0, date(now), checks)
    IN  IF r.exit = "ok" THEN summary_outcome(r.total)
        ELSE Outcome("summary", r.exit, "")

summarize(file, now, checks) ==
    IF ~file.exists THEN Outcome("summary", "error", "")
    ELSE LET r == summary_loop(csv_records(file.data), 1, 0, date(now), checks)
         IN  IF r.exit = "ok" THEN summary_outcome(r.total)
             ELSE Outcome("summary", r.exit, "")

handle_summary(p, checks) ==
    /\ Invocable(p)
    /\ runs' = runs + 1
    /\ exit_with(p, summarize(log_file, LocalNow(clock), checks))
    /\ UNCHANGED <<clock, log_file, tmp_file, faults>>

\* ------------------------------------------------- handle_status (236-256)
handle_status(p) ==
    /\ Invocable(p)
    /\ runs' = runs + 1
    /\ exit_with(p,
            IF ~tmp_file.exists THEN Outcome("status", "ok", "No active deep work session")
            ELSE IF read_session(tmp_file.data) = "ok" THEN Outcome("status", "ok", "Start:")
            ELSE Outcome("status", read_session(tmp_file.data), ""))
    /\ UNCHANGED <<clock, log_file, tmp_file, faults>>

\* --------------------------------------------------------- the wall clock
\* The clock is read by the next command to be invoked (lines 95, 164, 244)
\* and by a start about to write (line 130); it moves before those readings.
clock_matters ==
    \/ runs < MaxRuns /\ \A p \in Procs : pc[p] = "idle"
    \/ \E p \in Procs : pc[p] = "start_write"

\* Time passes.
tick ==
    /\ clock_matters
    /\ clock < MaxClock
    /\ clock' = clock + 1
    /\ UNCHANGED <<log_file, tmp_file, pc, desc, tags, stop, record, result, runs, faults>>

\* The system clock is set back (SystemTime is not monotonic).
clock_set_back ==
    /\ clock_matters
    /\ clock > 0
    /\ clock' \in 0..(clock - 1)
    /\ UNCHANGED <<log_file, tmp_file, pc, desc, tags, stop, record, result, runs, faults>>

\* ---------------------------------------------------------- specifications
\* A step of an invocation under way.
step(p) ==
    \/ start_open(p)
    \/ start_open_fails(p)
    \/ start_write(p)
    \/ start_write_fails(p)
    \/ stop_read(p)
    \/ stop_read_fails(p)
    \/ stop_open(p)
    \/ stop_open_fails(p)
    \/ stop_write(p)
    \/ stop_write_fails(p)
    \/ stop_remove(p)
    \/ stop_remove_fails(p)

\* One user at one shell: a command runs to its end before the next begins.
Next ==
    \/ \E a \in StartArgs : handle_start("p1", a[1], a[2])
    \/ handle_stop("p1")
    \/ \E checks \in BOOLEAN : handle_summary("p1", checks)
    \/ handle_status("p1")
    \/ \E p \in Procs : step(p)
    \/ tick
    \/ clock_set_back

Spec == Init /\ [][Next]_vars

\* summary over every log of InitLogs, at every time.
InitSummary == InitWith(InitLogs)

NextSummary ==
    \/ \E checks \in BOOLEAN : handle_summary("p1", checks)
    \/ tick
    \/ clock_set_back

SpecSummary == InitSummary /\ [][NextSummary]_vars

\* Two start invocations at once, from a state with no scratch file.
InitConc == InitWith({NoFile})

NextConc ==
    \/ \E p \in Procs, a \in StartArgs : handle_start(p, a[1], a[2])
    \/ \E p \in Procs : start_open(p)
    \/ \E p \in Procs : start_open_fails(p)
    \/ \E p \in Procs : start_write(p)
    \/ \E p \in Procs : start_write_fails(p)
    \/ tick
    \/ clock_set_back

SpecConc == InitConc /\ [][NextConc]_vars

\* ================================================================== claims
\* The last record of a file's text.
last_record(data) == csv_records(data)[Len(csv_records(data))]

\* The text ends between records: what is appended starts a new record.
ends_between_records(data) == csv_run(CsvStart, data).st = "StartRecord"

\* p's stop appends its record in this step.
appends(p) == pc[p] = "stop_write" /\ pc'[p] = "stop_remove"

\* What this step added at the end of the log.
appended == SubSeq(log_file'.data, Len(log_file.data) + 1, Len(log_file'.data))

\* p is invoked with subcommand cmd in this step: the step is an invocation
\* that leaves the other processes as they are.
invoked(p, cmd) ==
    /\ runs' = runs + 1
    /\ pc[p] = "idle"
    /\ result'[p].cmd = cmd
    /\ \A q \in Procs \ {p} : pc'[q] = pc[q] /\ result'[q] = result[q]

\* q is the whole seconds of a duration of so many ticks: the fraction of a
\* second is dropped.
whole_seconds(q, ticks) ==
    IF ticks >= 0
    THEN q >= 0 /\ q * TicksPerSec <= ticks /\ ticks < (q + 1) * TicksPerSec
    ELSE q <= 0 /\ (q - 1) * TicksPerSec < ticks /\ ticks <= q * TicksPerSec

\* ---- C1
C1_step(p) ==
    /\ appends(p) =>
         /\ tmp_file.exists /\ tmp_file' = tmp_file
         /\ log_file'.exists
         /\ log_file'.data = log_file.data \o appended
         /\ Len(appended) > 0 /\ appended[Len(appended)] = LF
         /\ Len(csv_records(appended)) = 1
         /\ Len(last_record(appended)) = 5
         /\ parse_from_rfc3339(last_record(appended)[1]).ok
         /\ parse_from_rfc3339(last_record(appended)[1])
              = parse_from_rfc3339(last_record(tmp_file.data)[1])
         /\ last_record(appended)[4] = last_record(tmp_file.data)[2]
         /\ last_record(appended)[5] = last_record(tmp_file.data)[3]
         /\ ends_between_records(log_file.data) =>
              csv_records(log_file'.data)
                = Append(csv_records(log_file.data), last_record(appended))
    /\ (pc[p] \in {"stop_read", "stop_open", "stop_remove"} \/ pc'[p] = "stop_read") =>
         log_file'.data = log_file.data
    /\ (pc[p] = "stop_remove" /\ result'[p].exit = "ok") =>
         /\ ~tmp_file'.exists
         /\ result'[p] = Outcome("stop", "ok", "Deep work complete!")

\* C1: a stop that meets no I/O or parse error leaves the log as it was with
\* one record appended at its end: the bytes before are unchanged, the bytes
\* added are one complete record whose start timestamp, description and tags
\* are those of the scratch file's record, and, when the log ended between
\* records, its records are the earlier ones, in order, then the new one.  No
\* other step of stop touches the log's bytes, and a stop that ends ok has
\* removed the scratch file.
C1_StopAppendsOneRecord == [][\A p \in Procs : C1_step(p)]_vars

\* A stop has ended ok: the log holds the earlier session and the new one,
\* whose description had to be quoted, and the scratch file is gone.
C1_Witness ==
    /\ result["p1"] = Outcome("stop", "ok", "Deep work complete!")
    /\ ~tmp_file.exists
    /\ Len(csv_records(log_file.data)) = 2
    /\ last_record(log_file.data)[4] = <<DQUOTE, COMMA>>
    /\ faults = 0

\* ---- C2
C2_step(p) ==
    /\ (pc[p] = "start_write" /\ result'[p].exit = "ok") =>
         csv_records(tmp_file'.data)
           = << << to_rfc3339(LocalNow(clock)), desc[p], join(tags[p]) >> >>
    /\ (invoked(p, "start") /\ tmp_file.exists) =>
         /\ result'[p] = Outcome("start", "ok", "Another deep work session is active")
         /\ pc'[p] = "idle"
         /\ tmp_file' = tmp_file
         /\ log_file' = log_file
    /\ (invoked(p, "start") /\ result[p] = Outcome("start", "ok", "Begin deep work!")) =>
         /\ tmp_file.exists
         /\ Len(csv_records(tmp_file'.data)) = 1

\* C2: a start that completes writes exactly one record, its own, to the
\* scratch file; a start invoked while the scratch file exists reports that a
\* session is active, exits ok and changes neither file; so start right after
\* a start that began a session leaves the scratch file with that one record.
C2_SecondStartWritesNothing == [][\A p \in Procs : C2_step(p)]_vars

\* start, then start: the second reported an active session and the scratch
\* file holds one record, the first start's.
C2_Witness ==
    /\ result["p1"] = Outcome("start", "ok", "Another deep work session is active")
    /\ runs = 2 /\ faults = 0
    /\ tmp_file.exists
    /\ Len(csv_records(tmp_file.data)) = 1
    /\ last_record(tmp_file.data)[2] = <<DQUOTE, COMMA>>

\* ---- C3
C3_step(p) ==
    (invoked(p, "stop") /\ ~tmp_file.exists) =>
        /\ result'[p] = Outcome("stop", "ok", "No active deep work session")
        /\ pc'[p] = "idle"
        /\ log_file' = log_file
        /\ tmp_file' = tmp_file

\* C3: stop invoked with no scratch file prints "No active deep work session",
\* exits ok at once, and leaves the log (absent or not) and the absence of the
\* scratch file as they were.
C3_StopWithoutSession == [][\A p \in Procs : C3_step(p)]_vars

\* stop ran with no scratch file and no log: neither exists afterwards.
C3_Witness ==
    /\ result["p1"] = Outcome("stop", "ok", "No active deep work session")
    /\ ~log_file.exists
    /\ ~tmp_file.exists

\* ---- C4
C4_step(p) ==
    appends(p) =>
        /\ parse_from_rfc3339(last_record(appended)[1]).ok
        /\ parse_from_rfc3339(last_record(appended)[2]).ok
        /\ parse_i32(last_record(appended)[3]).ok
        /\ whole_seconds(parse_i32(last_record(appended)[3]).v,
                         parse_from_rfc3339(last_record(appended)[2]).t
                           - parse_from_rfc3339(last_record(appended)[1]).t)

\* C4: in every record stop appends, the duration field is the whole seconds
\* of the record's stop timestamp minus its start timestamp.
C4_DurationIsStopMinusStart == [][\A p \in Procs : C4_step(p)]_vars

\* A record was appended for a session of one second and a fraction.
C4_Witness ==
    \E p \in Procs :
        /\ pc[p] = "stop_remove"
        /\ stop[p].t - parse_from_rfc3339(record[p][1]).t = TicksPerSec + 1
        /\ parse_i32(last_record(log_file.data)[3]).v = 1

\* ---- C5
\* The record's start or its duration does not parse.
malformed(rec) ==
    \/ ~parse_from_rfc3339(rec[1]).ok
    \/ Len(rec) < 3
    \/ ~parse_i32(rec[3]).ok

some_malformed(data) ==
    \E i \in 1..Len(csv_records(data)) : malformed(csv_records(data)[i])

\* Every record has the fields of the first, a start and a duration.
well_formed(data) ==
    \A i \in 1..Len(csv_records(data)) :
        record_ok(csv_records(data), i) /\ ~malformed(csv_records(data)[i])

\* The records whose start date, as recorded, is the day.
dated(data, day) ==
    {i \in 1..Len(csv_records(data)) :
        date(parse_from_rfc3339(csv_records(data)[i][1])) = day}

duration(data, i) == parse_i32(csv_records(data)[i][3]).v

\* Sums of the durations' upper and lower halves (d = 65536 * upper + lower),
\* which stay small however large the durations are.
RECURSIVE sum_upper(_, _)
sum_upper(data, S) ==
    IF S = {} THEN 0
    ELSE LET i == CHOOSE j \in S : TRUE
         IN  (duration(data, i) \div 65536) + sum_upper(data, S \ {i})

RECURSIVE sum_lower(_, _)
sum_lower(data, S) ==
    IF S = {} THEN 0
    ELSE LET i == CHOOSE j \in S : TRUE
         IN  (duration(data, i) % 65536) + sum_lower(data, S \ {i})

\* n is the sum of the durations of the records S, as integers.
is_sum(n, data, S) ==
    /\ n \div 65536 = sum_upper(data, S) + (sum_lower(data, S) \div 65536)
    /\ n % 65536 = sum_lower(data, S) % 65536

reports_todays_total(p) ==
    /\ result'[p].exit = "ok"
    /\ result'[p].msg = "Deep work summary"
    /\ is_sum(result'[p].total, log_file.data, dated(log_file.data, date(LocalNow(clock))))
    /\ result'[p].total
         = (3600 * result'[p].hrs + 60 * result'[p].minutes) + result'[p].seconds

\* C5: summary, run on a log all of whose records are well formed, reports as total the
\* sum of the durations of exactly the records whose start date is the
\* current local date.
C5_TotalIsSumOfTodaysDurations ==
    [][\A p \in Procs :
        (invoked(p, "summary") /\ log_file.exists /\ well_formed(log_file.data))
            => reports_todays_total(p)]_vars

\* The running total of the loop of lines 91-98 stays within i32.
RECURSIVE total_stays_in_i32(_, _, _, _)
total_stays_in_i32(data, i, total, day) ==
    IF i > Len(csv_records(data)) THEN TRUE
    ELSE IF i \notin dated(data, day) THEN total_stays_in_i32(data, i + 1, total, day)
    ELSE /\ ~add_overflows(total, duration(data, i))
         /\ total_stays_in_i32(data, i + 1, total + duration(data, i), day)

\* C5, within i32: the same, for the logs on which the running total of the
\* durations dated today stays within the i32 range.
C5_TotalIsSumWithinI32 ==
    [][\A p \in Procs :
        (/\ invoked(p, "summary") /\ log_file.exists /\ well_formed(log_file.data)
         /\ total_stays_in_i32(log_file.data, 1, 0, date(LocalNow(clock))))
            => reports_todays_total(p)]_vars

\* summary reported 2 seconds for a log of a session dated the day before (1
\* second) and one dated today (2 seconds).
C5_Witness ==
    /\ result["p1"].cmd = "summary" /\ result["p1"].exit = "ok"
    /\ log_file.data = SessA \o SessB
    /\ result["p1"].total = 2

\* ---- C7
\* C7: summary, run on a log one of whose records has a start or a duration
\* that does not parse, ends in an error or a panic having printed nothing and
\* reported no total, wherever the record is and whatever its date.
C7_MalformedRecordAborts ==
    [][\A p \in Procs :
        (invoked(p, "summary") /\ log_file.exists /\ some_malformed(log_file.data))
            => result'[p] \in {Outcome("summary", "error", ""),
                               Outcome("summary", "panic", "")}]_vars

\* summary aborted on a log whose first record is dated today and whose last
\* record, dated the day before, has a duration that does not parse.
C7_Witness ==
    /\ result["p1"] = Outcome("summary", "panic", "")
    /\ log_file.data = SessB \o BadDurA
    /\ date(LocalNow(clock)) = 1
    /\ runs = 1

\* ---- C10
\* C10: summary invoked while the log does not exist ends in an error, prints
\* no total and creates neither file.
C10_SummaryWithoutLog ==
    [][\A p \in Procs :
        (invoked(p, "summary") /\ ~log_file.exists)
            => /\ result'[p] = Outcome("summary", "error", "")
               /\ log_file' = log_file
               /\ tmp_file' = tmp_file]_vars

\* summary failed while the first session was active: the scratch file holds
\* its record and there is no log.
C10_Witness ==
    /\ result["p1"] = Outcome("summary", "error", "")
    /\ ~log_file.exists
    /\ tmp_file.exists
    /\ Len(csv_records(tmp_file.data)) = 1
    /\ faults = 0

\* ---- C6
\* The records of the log that have the five fields of a completed session
\* and whose two timestamps parse.
completed(data) ==
    {i \in 1..Len(csv_records(data)) :
        /\ Len(csv_records(data)[i]) = 5
        /\ parse_from_rfc3339(csv_records(data)[i][1]).ok
        /\ parse_from_rfc3339(csv_records(data)[i][2]).ok
        /\ parse_i32(csv_records(data)[i][3]).ok}

\* C6: in every completed session record of the log the start timestamp is
\* not later than the stop timestamp, and the duration is not negative.
C6_StartNotAfterStop ==
    \A i \in completed(log_file.data) :
        /\ parse_from_rfc3339(csv_records(log_file.data)[i][1]).t
             <= parse_from_rfc3339(csv_records(log_file.data)[i][2]).t
        /\ duration(log_file.data, i) >= 0

\* The executions in which the wall clock is never set back.
SpecMonotone == Init /\ [][Next /\ clock' >= clock]_vars

\* ---- C8
\* C8: every start that finds no scratch file goes on to open it, whatever
\* other invocations are under way; its open leaves the file empty, dropping
\* what an earlier invocation wrote; its write puts its record at the head of
\* the file without lengthening it beyond the longer of the two contents, and
\* reports that the session has begun.
C8_step(p) ==
    /\ (invoked(p, "start") /\ ~tmp_file.exists) => pc'[p] = "start_open"
    /\ (pc[p] = "start_open" /\ pc'[p] = "start_write") => tmp_file' = FileOf(<<>>)
    /\ (pc[p] = "start_write" /\ result'[p].exit = "ok")
         => /\ result'[p] = Outcome("start", "ok", "Begin deep work!")
            /\ tmp_file'.exists
            /\ csv_records(tmp_file'.data)[1]
                 = <<to_rfc3339(LocalNow(clock)), desc[p], join(tags[p])>>
            /\ Len(tmp_file'.data)
                 = IF Len(tmp_file.data) > Len(scratch_line(LocalNow(clock), desc[p], join(tags[p])))
                   THEN Len(tmp_file.data)
                   ELSE Len(scratch_line(LocalNow(clock), desc[p], join(tags[p])))

C8_ConcurrentStartsRace ==
    [][\A p \in Procs : C8_step(p)]_vars

\* Both invocations reported that a session has begun, and the scratch file
\* holds one record.
C8_Witness ==
    /\ result["p1"] = Outcome("start", "ok", "Begin deep work!")
    /\ result["p2"] = Outcome("start", "ok", "Begin deep work!")
    /\ tmp_file.exists
    /\ Len(csv_records(tmp_file.data)) = 1

\* ---- C9
ends_with(data, bytes) ==
    /\ Len(data) >= Len(bytes)
    /\ SubSeq(data, Len(data) - Len(bytes) + 1, Len(data)) = bytes

\* C9: the scratch file is removed only by a stop that has appended the whole
\* record of the session to the log; while a stop is between reading the
\* session and removing the file, the scratch file holds the session; a stop
\* that fails reading the session or opening the log leaves the scratch file
\* and the log as they were when it was invoked, and one that fails in the
\* append leaves the scratch file as it was.
C9_step(p) ==
    /\ (tmp_file.exists /\ ~tmp_file'.exists)
         => \E q \in Procs :
               /\ pc[q] = "stop_remove"
               /\ log_file' = log_file
               /\ log_file.exists
               /\ ends_with(log_file.data,
                            completed_line(last_record(tmp_file.data), stop[q]))
    /\ pc'[p] \in {"stop_open", "stop_write", "stop_remove"}
         => /\ tmp_file'.exists
            /\ last_record(tmp_file'.data) = record'[p]
    /\ (invoked(p, "stop") \/ pc[p] = "stop_read" \/ pc[p] = "stop_open")
         => /\ tmp_file' = tmp_file
            /\ log_file'.data = log_file.data
    /\ (pc[p] \in {"stop_read", "stop_open"} /\ pc'[p] = "idle")
         => /\ result'[p].cmd = "stop"
            /\ result'[p].exit \in {"error", "panic"}
            /\ log_file' = log_file
    /\ (pc[p] = "stop_write" /\ pc'[p] = "idle")
         => /\ result'[p].cmd = "stop"
            /\ result'[p].exit = "error"
            /\ tmp_file' = tmp_file

C9_StopNeverLosesSession ==
    [][\A p \in Procs : C9_step(p)]_vars

\* A stop failed before the append: the scratch file still holds the session
\* and no log has been created.
C9_Witness ==
    /\ result["p1"].cmd = "stop"
    /\ result["p1"].exit = "error"
    /\ pc["p1"] = "idle"
    /\ tmp_file.exists
    /\ Len(csv_records(tmp_file.data)) = 1
    /\ log_file = NoFile

====
